---- MODULE Spec2Model ----
(***************************************************************************)
(* Model of the betting_edge core: the provider adapters of DataAgent, the *)
(* SQLite events store (table matches), the batch store loops of the       *)
(* dashboard and the BettingEdgePipeline orchestrator.                     *)
(*                                                                         *)
(* Encoding of Python / JSON values:                                       *)
(*   - a dict is a TLA+ record; a missing key is a missing field;          *)
(*   - an integer-or-null scalar is IntJ(n), NullJ or TextJ (a string      *)
(*     where an integer is expected);                                      *)
(*   - a team name is Str(s), s a sequence of characters, or NullStr       *)
(*     (Python None);                                                      *)
(*   - dates are ordinals (ISO strings compare as their ordinals do), the  *)
(*     empty date string is 0.                                             *)
(***************************************************************************)
EXTENDS Integers, Sequences, FiniteSets, TLC

\* ------------------------------------------------------------------ bounds
MaxBatch == 3   \* longest list an upstream response carries
MaxNow   == 3   \* number of store_match calls in one behaviour
MaxRefresh == 2 \* number of refresh_data_for_match calls in one behaviour

\* --------------------------------------------------------- program constants
FootballBatchCap == 50      \* matches[:50] in the football store loop
DefaultSeason    == 2023

\* ------------------------------------------------------------- JSON scalars
IntJ(n) == [t |-> "int", v |-> n]
NullJ   == [t |-> "null", v |-> 0]
TextJ   == [t |-> "text", v |-> 0]
Str(s)  == [t |-> "str", s |-> s]
NullStr == [t |-> "null", s |-> <<>>]

Sports == {"football", "college_football", "basketball"}

\* dict.get(key, default)
Get(d, key, default) == IF key \in DOMAIN d THEN d[key] ELSE default

\* str.lower() on the characters the model uses
LowerChar(c) ==
    CASE c = "L" -> "l" [] c = "A" -> "a" [] c = "C" -> "c"
      [] c = "E" -> "e" [] c = "I" -> "i" [] c = "V" -> "v"
      [] c = "T" -> "t" [] c = "B" -> "b" [] c = "D" -> "d"
      [] OTHER -> c
Lower(s) == [i \in 1..Len(s) |-> LowerChar(s[i])]

\* Python's  t in s  on strings
IsSubstr(t, s) ==
    \E i \in 0..(Len(s) - Len(t)) : SubSeq(s, i + 1, i + Len(t)) = t

\* ------------------------------------------------- provider records (events)
\* The nested dict shape store_match and the pipeline filter read.
Event(id, date, status, venue, lname, season, hid, hname, aid, aname, hg, ag) ==
    [fixture |-> [id |-> id, date |-> date, status |-> [long |-> status],
                  venue |-> [name |-> venue]],
     league  |-> [id |-> 39, name |-> lname, season |-> season],
     teams   |-> [home |-> [id |-> hid, name |-> hname],
                  away |-> [id |-> aid, name |-> aname]],
     goals   |-> [home |-> hg, away |-> ag]]

Without(d, key) == [k \in (DOMAIN d) \ {key} |-> d[k]]

Liverpool == Str(<<"L", "i", "v">>)
Arsenal   == Str(<<"A", "r">>)
Chelsea   == Str(<<"C", "h">>)
Everton   == Str(<<"E", "v">>)

F1 == Event(IntJ(1), 5, "Match Finished", "Anfield", "Premier League", 2023,
            10, Liverpool, 11, Arsenal, IntJ(2), IntJ(0))
F1b == Event(IntJ(1), 5, "Not Started", "Anfield", "Premier League", 2023,
             10, Liverpool, 11, Arsenal, NullJ, NullJ)
F2 == Event(IntJ(2), 6, "Not Started", "Bridge", "Premier League", 2023,
            12, Chelsea, 13, Everton, NullJ, NullJ)
\* malformed: the 'goals' key is missing
FNoGoals == Without(F2, "goals")

\* ------------------------------------------------------------------- state
VARIABLES
    matchesTbl,    \* rows of the SQLite table  matches
    now,           \* clock: datetime.now() of the latest store_match call
    agentSport,    \* st.session_state.data_agent.sport_type
    lastCall,      \* the latest store_match call and what it did
    spc,           \* position of the dashboard's fetch-and-store handler
    batch,         \* the list the store loop iterates
    batchIdx,      \* number of loop iterations done
    stored_count,  \* the loop's stored_count
    ppc,           \* position of the pipeline entry point being executed
    llm_out,       \* run(): what the interpreter's LLM call produced
    intent,        \* run(): structured (the SportsDataQuery)
    odds_data,     \* run(): odds_data
    matches,       \* run(): matches returned by the data agent
    envelope,      \* the dict the entry point returned
    fetchLog,      \* provider fetches issued since the entry point started
    oddsLog,       \* odds lookups issued since the entry point started
    capLog,        \* reasoning capabilities invoked since it started
    tblAtStart,    \* the table  matches  when the entry point started
    deep,          \* run_deep_analysis(): its local variables
    statsTbl,      \* rows of the SQLite table  match_stats
    oddsTbl,       \* rows of the SQLite table  odds
    refreshes,     \* clock: number of refresh_data_for_match calls so far
    lastRefresh,   \* the latest refresh_data_for_match call and what it did
    recent,        \* the latest get_recent_matches call and its result
    lastFetch,     \* the latest adapter fetch: upstream response and outcome
    writers,       \* concurrent store_match calls: position, arguments, outcome
    dbLock,        \* the connection holding SQLite's write lock, or "none"
    commitLog,     \* the store_match transactions committed so far, in order
    observed       \* the latest get_match_data call of a concurrent reader

storeVars == <<matchesTbl, now, agentSport, lastCall, spc, batch, batchIdx,
               stored_count>>
pipeVars  == <<ppc, llm_out, intent, odds_data, matches, envelope, fetchLog, oddsLog,
               capLog, tblAtStart, deep>>
dataVars  == <<statsTbl, oddsTbl, refreshes, lastRefresh, recent, lastFetch>>
concVars  == <<writers, dbLock, commitLog, observed>>
vars      == <<storeVars, pipeVars, dataVars, concVars>>

\* -------------------------------------------------------------- store_match
RequiredKeys == {"fixture", "league", "teams", "goals"}

\* the parameter tuple of INSERT OR REPLACE INTO matches
RowOf(sport, rec, ts) ==
    [match_id       |-> rec.fixture.id.v,
     sport_type     |-> sport,
     league_id      |-> rec.league.id,
     league_name    |-> rec.league.name,
     season         |-> rec.league.season,
     match_date     |-> rec.fixture.date,
     home_team_id   |-> rec.teams.home.id,
     home_team_name |-> rec.teams.home.name,
     away_team_id   |-> rec.teams.away.id,
     away_team_name |-> rec.teams.away.name,
     home_score     |-> rec.goals.home,
     away_score     |-> rec.goals.away,
     status         |-> rec.fixture.status.long,
     venue          |-> rec.fixture.venue.name,
     last_updated   |-> ts]

\* mutant: a plain INSERT into a table without the primary key
InsertOrReplace_PlainInsert(tbl, row) == tbl \cup {row}

\* INSERT OR REPLACE on the primary key match_id
InsertOrReplace(tbl, row) ==
    {r \in tbl : r.match_id # row.match_id} \cup {row}

\* mutant: REPLACE has deleted the old row when the insert fails, and the
\* except branch does not roll back
StoreMatch_NoRollback(tbl, sport, rec, ts) ==
    IF ~(RequiredKeys \subseteq DOMAIN rec) \/ rec.fixture.id.t # "int"
    THEN [table |-> {r \in tbl : r.match_id # rec.fixture.id.v},
          committed |-> FALSE, result |-> "None"]
    ELSE [table |-> InsertOrReplace(tbl, RowOf(sport, rec, ts)),
          committed |-> TRUE, result |-> "None"]

\* store_match: the table after the call and whether the insert committed.
\* A KeyError (missing key) is raised before the INSERT; a non-integer
\* match_id makes the INSERT fail with a datatype mismatch.  Both land in the
\* except branch: print, rollback, fall through to the end of the function.
StoreMatch(tbl, sport, rec, ts) ==
    IF ~(RequiredKeys \subseteq DOMAIN rec)
    THEN [table |-> tbl, committed |-> FALSE, result |-> "None"]
    ELSE IF rec.fixture.id.t # "int"
    THEN [table |-> tbl, committed |-> FALSE, result |-> "None"]
    ELSE [table |-> InsertOrReplace(tbl, RowOf(sport, rec, ts)),
          committed |-> TRUE, result |-> "None"]

NoCall == [at |-> 0, sport |-> "football", rec |-> F1, committed |-> FALSE,
           result |-> "None"]

InitStore ==
    /\ matchesTbl = {}
    /\ now = 0
    /\ agentSport = "football"
    /\ lastCall = NoCall
    /\ spc = "idle"
    /\ batch = <<>>
    /\ batchIdx = 0
    /\ stored_count = 0

\* mutant: switching the sport recreates the database file
InitDataAgent_DropsTable(sport) ==
    /\ spc = "idle"
    /\ sport # agentSport
    /\ agentSport' = sport
    /\ matchesTbl' = {}
    /\ UNCHANGED <<now, lastCall, spc, batch, batchIdx, stored_count>>
    /\ UNCHANGED <<pipeVars, concVars, dataVars>>

\* init_data_agent(sport_type)
InitDataAgent(sport) ==
    /\ spc = "idle"
    /\ sport # agentSport
    /\ agentSport' = sport
    /\ UNCHANGED <<matchesTbl, now, lastCall, spc, batch, batchIdx, stored_count>>
    /\ UNCHANGED <<pipeVars, concVars, dataVars>>

\* one call data_agent.store_match(rec)
CallStoreMatch(rec) ==
    LET out == StoreMatch(matchesTbl, agentSport, rec, now + 1) IN
    /\ now < MaxNow
    /\ now' = now + 1
    /\ matchesTbl' = out.table
    /\ lastCall' = [at |-> now + 1, sport |-> agentSport, rec |-> rec,
                    committed |-> out.committed, result |-> out.result]

\* ------------------------------------------------------- upstream responses
\* What requests.get produced: a transport error, a non-2xx status, a body
\* whose Content-Type is not JSON, a JSON Content-Type with an unparsable
\* body, or parsed JSON (an object or a list of items).
FailureKinds == {"transport_error", "http_error", "non_json", "bad_json"}

RECURSIVE SeqsUpTo(_, _)
SeqsUpTo(S, n) ==
    IF n = 0 THEN {<<>>}
    ELSE LET shorter == SeqsUpTo(S, n - 1) IN
         shorter \cup {Append(q, x) : q \in {r \in shorter : Len(r) = n - 1}, x \in S}

Take(s, n) == SubSeq(s, 1, IF Len(s) < n THEN Len(s) ELSE n)

\* -------------------------------------------------- college games (raw JSON)
Game(id, date, completed, hid, hname, aid, aname, hp, ap) ==
    [id |-> id, startDate |-> date, completed |-> completed, season |-> 2023,
     venue |-> "Dome", homeId |-> hid, homeTeam |-> hname,
     awayId |-> aid, awayTeam |-> aname, homePoints |-> hp, awayPoints |-> ap]

\* a finished 0-0 game, an unplayed game without venue, points or flag,
\* a game whose homeTeam is JSON null, a game with a non-integer id,
\* and a list element that is not an object
G1 == Game(IntJ(1), 5, TRUE, 20, Chelsea, 21, Everton, IntJ(0), IntJ(0))
G2 == [id |-> IntJ(2), startDate |-> 6, homeId |-> 22, homeTeam |-> Liverpool,
       awayId |-> 21, awayTeam |-> Everton]
GNullTeam == Game(IntJ(2), 6, FALSE, 20, NullStr, 21, Everton, NullJ, NullJ)
GTextId   == Game(TextJ, 6, FALSE, 20, Chelsea, 21, Arsenal, NullJ, NullJ)
GScalar   == [scalar |-> 7]

RawGames == {G1, G2, GTextId}
RawItems == RawGames \cup {GScalar}

IsObject(item) == "scalar" \notin DOMAIN item

CollegeResponses ==
    {[kind |-> k, items |-> <<>>] : k \in FailureKinds \cup {"json_object"}}
    \cup {[kind |-> "json_list", items |-> q] : q \in SeqsUpTo(RawItems, MaxBatch)}

\* mutant: missing points are read with a default of 0
ConvertGame_ZeroDefault(sport, game, year) ==
    [fixture |-> [id |-> Get(game, "id", IntJ(0)),
                  date |-> Get(game, "startDate", 0),
                  status |-> [long |-> IF Get(game, "completed", FALSE)
                                       THEN "completed" ELSE "scheduled"],
                  venue |-> [name |-> IF Get(game, "venue", "") = ""
                                      THEN "TBD" ELSE game.venue]],
     league  |-> [id |-> 0,
                  name |-> IF sport = "college_football"
                           THEN "College Football" ELSE "College Basketball",
                  season |-> Get(game, "season", year)],
     teams   |-> [home |-> [id |-> Get(game, "homeId", 0),
                            name |-> Get(game, "homeTeam", Str(<<"T", "B", "D">>))],
                  away |-> [id |-> Get(game, "awayId", 0),
                            name |-> Get(game, "awayTeam", Str(<<"T", "B", "D">>))]],
     goals   |-> [home |-> Get(game, "homePoints", IntJ(0)),
                  away |-> Get(game, "awayPoints", IntJ(0))]]

\* the converted_game dict built for one game of the response
ConvertGame(sport, game, year) ==
    [fixture |-> [id |-> Get(game, "id", IntJ(0)),
                  date |-> Get(game, "startDate", 0),
                  status |-> [long |-> IF Get(game, "completed", FALSE)
                                       THEN "completed" ELSE "scheduled"],
                  venue |-> [name |-> IF Get(game, "venue", "") = ""
                                      THEN "TBD" ELSE game.venue]],
     league  |-> [id |-> 0,
                  name |-> IF sport = "college_football"
                           THEN "College Football" ELSE "College Basketball",
                  season |-> Get(game, "season", year)],
     teams   |-> [home |-> [id |-> Get(game, "homeId", 0),
                            name |-> Get(game, "homeTeam", Str(<<"T", "B", "D">>))],
                  away |-> [id |-> Get(game, "awayId", 0),
                            name |-> Get(game, "awayTeam", Str(<<"T", "B", "D">>))]],
     goals   |-> [home |-> Get(game, "homePoints", NullJ),
                  away |-> Get(game, "awayPoints", NullJ)]]

Raised     == [raised |-> TRUE, result |-> <<>>]
Returns(q) == [raised |-> FALSE, result |-> q]

\* _fetch_college_data: the except clauses cover HTTPError, RequestException
\* and JSONDecodeError only.  A non-empty JSON object fails at data[0]
\* (KeyError), a list element that is not an object fails at game.get
\* (AttributeError); neither is caught.
FetchCollegeData(sport, resp, year) ==
    IF resp.kind \in FailureKinds THEN Returns(<<>>)
    ELSE IF resp.kind = "json_object" THEN Raised
    ELSE IF \E i \in 1..Len(resp.items) : ~IsObject(resp.items[i]) THEN Raised
    ELSE Returns([i \in 1..Len(resp.items) |->
                     ConvertGame(sport, resp.items[i], year)])

\* ------------------------------------------------ API-Football (raw JSON)
FixtureItems == {F1, F1b, FNoGoals}

FootballResponses ==
    {[kind |-> k, items |-> <<>>] :
        k \in {"transport_error", "http_error", "bad_json", "json_errors",
               "json_no_response", "json_list"}}
    \cup {[kind |-> "json_response", items |-> q] :
            q \in SeqsUpTo(FixtureItems, MaxBatch)}

\* _fetch_football_fixtures: RequestException (transport, status, JSON
\* decoding) gives [], a non-empty 'errors' member gives [], otherwise
\* data.get('response', []).  A JSON list has no .keys(): AttributeError.
FetchFootballFixtures(resp) ==
    IF resp.kind \in {"transport_error", "http_error", "bad_json"}
    THEN Returns(<<>>)
    ELSE IF resp.kind = "json_list" THEN Raised
    ELSE IF resp.kind = "json_errors" THEN Returns(<<>>)
    ELSE IF resp.kind = "json_no_response" THEN Returns(<<>>)
    ELSE Returns(resp.items)

\* ------------------------------------------------------------ store reads
\* get_match_data: dict(row) of the row with that match_id, or None
NoRow == [none |-> TRUE]

GetMatchData(tbl, match_id) ==
    IF \E r \in tbl : r.match_id = match_id
    THEN CHOOSE r \in tbl : r.match_id = match_id
    ELSE NoRow

\* SQL  a LIKE b  for a pattern without wildcards
Like(a, b) == a = b

\* the WHERE clause of get_recent_matches; AND binds tighter than OR:
\*   ((home_team_id = ? OR away_team_id = ?) AND status LIKE 'Match Finished')
\*   OR status LIKE 'completed'
RecentWhere(r, team_id) ==
    \/ /\ (r.home_team_id = team_id \/ r.away_team_id = team_id)
       /\ Like(r.status, "Match Finished")
    \/ Like(r.status, "completed")

\* the orders  ORDER BY match_date DESC  can produce (ties in any order)
OrderByDateDesc(S) ==
    {q \in [1..Cardinality(S) -> S] :
        /\ \A i, j \in 1..Cardinality(S) : i # j => q[i] # q[j]
        /\ \A i, j \in 1..Cardinality(S) :
              i < j => q[i].match_date >= q[j].match_date}

\* get_recent_matches(team_id, limit): the lists the query can return
GetRecentMatches(tbl, team_id, limit) ==
    {Take(q, limit) : q \in OrderByDateDesc({r \in tbl : RecentWhere(r, team_id)})}

\* limits a caller passes: the smallest, the default and the dashboard's
RecentLimits == {1, 5, 10}

NoRecent == [team_id |-> 0, limit |-> 0, rows |-> <<>>]

\* the teams of the current sport the Team Statistics tab offers
TeamsOfSport(tbl, sport) ==
    {r.home_team_id : r \in {x \in tbl : x.sport_type = sport}}
    \cup {r.away_team_id : r \in {x \in tbl : x.sport_type = sport}}

\* ------------------------------------------------ store_stats / store_odds
\* one element of the statistics response: a team and its statistics list
Stat(type, value) == [type |-> type, value |-> value]

TeamStats(id, name, shots, possession) ==
    [team |-> [id |-> id, name |-> name],
     statistics |-> <<Stat("Shots on Goal", shots),
                      Stat("Ball Possession", possession)>>]

\* a value with a trailing percent sign, as the provider sends possession
Pct(n) == [t |-> "pct", v |-> n]

\* both teams; the home team alone with later values; the home team without
\* a possession entry and with a null shots value; an element without the
\* 'statistics' key after a well-formed one
StatsBoth == <<TeamStats(10, Liverpool, IntJ(5), Pct(55)),
               TeamStats(11, Arsenal, IntJ(3), Pct(45))>>
StatsHomeLater == <<TeamStats(10, Liverpool, IntJ(6), Pct(60))>>
StatsSparse == <<[team |-> [id |-> 10, name |-> Liverpool],
                  statistics |-> <<Stat("Shots on Goal", NullJ)>>]>>
StatsBroken == <<TeamStats(10, Liverpool, IntJ(7), Pct(70)),
                 [team |-> [id |-> 11, name |-> Arsenal]]>>

StatsPayloads == {StatsBoth, StatsHomeLater, StatsSparse, StatsBroken}

\* {s['type']: s['value'] for s in team_stats['statistics']}
RECURSIVE StatsDictFrom(_, _, _)
StatsDictFrom(list, i, acc) ==
    IF i > Len(list) THEN acc
    ELSE StatsDictFrom(list, i + 1,
             [k \in (DOMAIN acc) \cup {list[i].type} |->
                 IF k = list[i].type THEN list[i].value ELSE acc[k]])

StatsDict(list) == StatsDictFrom(list, 1, [k \in {} |-> NullJ])

\* str(value).rstrip('%'): the digits of a percentage or of an integer; the
\* text 'None' for a null
RstripPercent(value) ==
    IF value.t \in {"pct", "int"} THEN IntJ(value.v) ELSE TextJ

\* the parameter tuple of the INSERT into match_stats (the count columns are
\* all read as shots_on_goal is, the percentage columns as ball_possession)
StatsRowOf(stat_id, match_id, team_stats, ts) ==
    LET stats == StatsDict(team_stats.statistics) IN
    [stat_id         |-> stat_id,
     match_id        |-> match_id,
     team_id         |-> team_stats.team.id,
     team_name       |-> team_stats.team.name,
     shots_on_goal   |-> Get(stats, "Shots on Goal", IntJ(0)),
     ball_possession |-> RstripPercent(Get(stats, "Ball Possession", Pct(0))),
     last_updated    |-> ts]

\* AUTOINCREMENT: one more than the largest id the table has held
NextId(ids) == IF ids = {} THEN 1
               ELSE (CHOOSE m \in ids : \A x \in ids : x <= m) + 1

\* INSERT OR REPLACE INTO match_stats without stat_id: the only uniqueness
\* constraint of the table is the AUTOINCREMENT key, so nothing is replaced
InsertStatsRow(tbl, match_id, team_stats, ts) ==
    tbl \cup {StatsRowOf(NextId({r.stat_id : r \in tbl}), match_id, team_stats, ts)}

\* the loop of store_stats; a KeyError leaves the function before commit()
RECURSIVE StoreStatsLoop(_, _, _, _, _)
StoreStatsLoop(tbl, match_id, stats_data, i, ts) ==
    IF i > Len(stats_data) THEN [table |-> tbl, raised |-> FALSE]
    ELSE IF ~({"team", "statistics"} \subseteq DOMAIN stats_data[i])
    THEN [table |-> tbl, raised |-> TRUE]
    ELSE StoreStatsLoop(InsertStatsRow(tbl, match_id, stats_data[i], ts),
                        match_id, stats_data, i + 1, ts)

\* store_stats: the committed table; uncommitted inserts of a call that
\* raised are lost with its connection
StoreStats(tbl, match_id, stats_data, ts) ==
    LET out == StoreStatsLoop(tbl, match_id, stats_data, 1, ts) IN
    IF out.raised THEN [table |-> tbl, raised |-> TRUE] ELSE out

\* the odds response item: bookmakers, their bets, the values of a bet
Bet(name, values) == [name |-> name, values |-> values]
Bookmaker(name, bets) == [name |-> name, bets |-> bets]

\* one bookmaker with a three-way price; two bookmakers, the second with
\* another market first and a two-way price; no Match Winner market at all;
\* a bookmaker without 'bets' after a well-formed one
OddsOne == [bookmakers |->
              <<Bookmaker("Bet365", <<Bet("Match Winner",
                                          <<IntJ(2), IntJ(3), IntJ(4)>>)>>)>>]
OddsTwo == [bookmakers |->
              <<Bookmaker("Bet365", <<Bet("Match Winner",
                                          <<IntJ(3), IntJ(3), IntJ(3)>>)>>),
                Bookmaker("Bwin", <<Bet("Goals Over/Under", <<IntJ(2)>>),
                                    Bet("Match Winner", <<IntJ(2), IntJ(5)>>)>>)>>]
OddsOtherMarket == [bookmakers |->
              <<Bookmaker("Bwin", <<Bet("Goals Over/Under", <<IntJ(2)>>)>>)>>]
OddsBroken == [bookmakers |->
              <<Bookmaker("Bet365", <<Bet("Match Winner",
                                          <<IntJ(2), IntJ(3), IntJ(4)>>)>>),
                [name |-> "Bwin"]>>]

OddsPayloads == {OddsOne, OddsTwo, OddsOtherMarket, OddsBroken}

\* the parameter tuple of the INSERT into odds
OddsRowOf(odds_id, match_id, bookmaker, values, ts) ==
    [odds_id      |-> odds_id,
     match_id     |-> match_id,
     bookmaker    |-> bookmaker,
     bet_type     |-> "Match Winner",
     home_odds    |-> IF Len(values) > 0 THEN values[1] ELSE NullJ,
     draw_odds    |-> IF Len(values) > 1 THEN values[2] ELSE NullJ,
     away_odds    |-> IF Len(values) > 2 THEN values[3] ELSE NullJ,
     last_updated |-> ts]

\* mutant: the newest quote of a bookmaker replaces its previous one
InsertOddsRow_ReplaceQuote(tbl, match_id, bookmaker, values, ts) ==
    {r \in tbl : ~(r.match_id = match_id /\ r.bookmaker = bookmaker)}
    \cup {OddsRowOf(NextId({r.odds_id : r \in tbl}), match_id, bookmaker,
                    values, ts)}

\* INSERT INTO odds
InsertOddsRow(tbl, match_id, bookmaker, values, ts) ==
    tbl \cup {OddsRowOf(NextId({r.odds_id : r \in tbl}), match_id, bookmaker,
                        values, ts)}

\* the two nested loops of store_odds, bookmaker i and bet j
RECURSIVE StoreOddsLoop(_, _, _, _, _, _)
StoreOddsLoop(tbl, match_id, books, i, j, ts) ==
    IF i > Len(books) THEN [table |-> tbl, raised |-> FALSE]
    ELSE IF "bets" \notin DOMAIN books[i] THEN [table |-> tbl, raised |-> TRUE]
    ELSE IF j > Len(books[i].bets)
    THEN StoreOddsLoop(tbl, match_id, books, i + 1, 1, ts)
    ELSE IF books[i].bets[j].name = "Match Winner"
    THEN StoreOddsLoop(InsertOddsRow(tbl, match_id, books[i].name,
                                     books[i].bets[j].values, ts),
                       match_id, books, i, j + 1, ts)
    ELSE StoreOddsLoop(tbl, match_id, books, i, j + 1, ts)

\* store_odds: the committed table
StoreOdds(tbl, match_id, odds, ts) ==
    LET out == IF "bookmakers" \in DOMAIN odds
               THEN StoreOddsLoop(tbl, match_id, odds.bookmakers, 1, 1, ts)
               ELSE [table |-> tbl, raised |-> TRUE] IN
    IF out.raised THEN [table |-> tbl, raised |-> TRUE] ELSE out

\* --------------------------------------------------- fetch_odds / fetch_stats
\* what the provider answered: transport or status failure, JSON without the
\* 'response' member, an empty 'response' list, or a list with the payload
DetailKinds == {"transport_error", "http_error", "json_no_response",
                "json_empty"}

OddsResponses ==
    {[kind |-> k, payload |-> OddsOne] : k \in DetailKinds}
    \cup {[kind |-> "json_response", payload |-> o] : o \in OddsPayloads}

StatsResponses ==
    {[kind |-> k, payload |-> <<>>] : k \in DetailKinds}
    \cup {[kind |-> "json_response", payload |-> q] : q \in StatsPayloads}

\* mutant: a RequestException is answered with a default payload
FetchOdds_DefaultOnError(sport, resp) ==
    IF sport # "football"
    THEN [raised |-> FALSE, none |-> TRUE, data |-> OddsOne, requested |-> FALSE]
    ELSE IF resp.kind = "json_empty"
    THEN [raised |-> FALSE, none |-> TRUE, data |-> resp.payload, requested |-> TRUE]
    ELSE IF resp.kind = "json_no_response"
    THEN [raised |-> TRUE, none |-> TRUE, data |-> resp.payload, requested |-> TRUE]
    ELSE [raised |-> FALSE, none |-> FALSE, data |-> resp.payload, requested |-> TRUE]

\* fetch_odds: None without a request unless the agent is a football agent;
\* data['response'][0], None for an empty list or a RequestException;
\* data['response'] on JSON without that member raises
FetchOdds(sport, resp) ==
    IF sport # "football"
    THEN [raised |-> FALSE, none |-> TRUE, data |-> OddsOne, requested |-> FALSE]
    ELSE IF resp.kind \in {"transport_error", "http_error", "json_empty"}
    THEN [raised |-> FALSE, none |-> TRUE, data |-> resp.payload, requested |-> TRUE]
    ELSE IF resp.kind = "json_no_response"
    THEN [raised |-> TRUE, none |-> TRUE, data |-> resp.payload, requested |-> TRUE]
    ELSE [raised |-> FALSE, none |-> FALSE, data |-> resp.payload, requested |-> TRUE]

\* fetch_stats: None without a request unless the agent is a football agent;
\* data['response'], None on a RequestException
FetchStats(sport, resp) ==
    IF sport # "football"
    THEN [raised |-> FALSE, none |-> TRUE, data |-> <<>>, requested |-> FALSE]
    ELSE IF resp.kind \in {"transport_error", "http_error"}
    THEN [raised |-> FALSE, none |-> TRUE, data |-> resp.payload, requested |-> TRUE]
    ELSE IF resp.kind = "json_no_response"
    THEN [raised |-> TRUE, none |-> TRUE, data |-> resp.payload, requested |-> TRUE]
    ELSE [raised |-> FALSE, none |-> FALSE, data |-> resp.payload, requested |-> TRUE]

NoRefresh == [at |-> 0, match_id |-> 0, sport |-> "football",
              odds_data |-> OddsOne, stats_data |-> <<>>,
              odds_kind |-> "none", stats_kind |-> "none", requests |-> 0,
              odds_stored |-> FALSE, stats_stored |-> FALSE,
              raised |-> FALSE]

\* refresh_data_for_match(match_id): on a football agent odds first, then
\* statistics, and an exception in either half ends the call; on any other
\* agent the call only prints that the refresh is skipped
RefreshDataForMatch(match_id, oddsResp, statsResp) ==
    LET ts       == refreshes + 1
        football == agentSport = "football"
        fo       == FetchOdds(agentSport, oddsResp)
        doOdds   == football /\ ~fo.raised /\ ~fo.none
        so       == IF doOdds THEN StoreOdds(oddsTbl, match_id, fo.data, ts)
                    ELSE [table |-> oddsTbl, raised |-> FALSE]
        oddsFail == football /\ (fo.raised \/ so.raised)
        askStats == football /\ ~oddsFail
        fs       == FetchStats(agentSport, statsResp)
        doStats  == askStats /\ ~fs.raised /\ ~fs.none /\ Len(fs.data) > 0
        ss       == IF doStats THEN StoreStats(statsTbl, match_id, fs.data, ts)
                    ELSE [table |-> statsTbl, raised |-> FALSE]
    IN
    /\ oddsTbl' = so.table
    /\ statsTbl' = ss.table
    /\ refreshes' = ts
    /\ lastRefresh' = [at |-> ts, match_id |-> match_id,
                       sport |-> agentSport,
                       odds_data |-> IF football THEN fo.data ELSE OddsOne,
                       stats_data |-> IF askStats THEN fs.data ELSE <<>>,
                       odds_kind |-> IF football /\ fo.requested
                                     THEN oddsResp.kind ELSE "none",
                       stats_kind |-> IF askStats /\ fs.requested
                                      THEN statsResp.kind ELSE "none",
                       requests |-> (IF football /\ fo.requested THEN 1 ELSE 0)
                                  + (IF askStats /\ fs.requested THEN 1 ELSE 0),
                       odds_stored |-> doOdds /\ ~so.raised,
                       stats_stored |-> doStats /\ ~ss.raised,
                       raised |-> oddsFail
                                  \/ (askStats /\ (fs.raised \/ ss.raised))]

\* -------------------------------------------------- adapter fetch bookkeeping
NoFetch == [adapter |-> "none", resp |-> [kind |-> "none", items |-> <<>>],
            raised |-> FALSE, result |-> <<>>]

\* ------------------------------------------- dashboard: fetch and store loop
\* what the handler does with the adapter's result
AfterFetch(r, list) ==
    IF r.raised THEN
        /\ spc' = "error"
        /\ UNCHANGED <<batch, batchIdx, stored_count>>
    ELSE IF list = <<>> THEN
        /\ spc' = "empty"
        /\ UNCHANGED <<batch, batchIdx, stored_count>>
    ELSE
        /\ spc' = "storing"
        /\ batch' = list
        /\ batchIdx' = 0
        /\ stored_count' = 0

\* button "Fetch Matches" (football agent)
FetchMatchesClick(resp) ==
    LET r == FetchFootballFixtures(resp) IN
    /\ spc = "idle"
    /\ agentSport = "football"
    /\ AfterFetch(r, Take(r.result, FootballBatchCap))
    /\ lastFetch' = [adapter |-> "football", resp |-> resp,
                     raised |-> r.raised, result |-> r.result]
    /\ UNCHANGED <<matchesTbl, now, agentSport, lastCall>>
    /\ UNCHANGED <<statsTbl, oddsTbl, refreshes, lastRefresh, recent>>
    /\ UNCHANGED <<pipeVars, concVars>>

\* button "Fetch ... Games" (college agent); the diagnostic probe request
\* that precedes the fetch either passes or raises into the outer except
FetchGamesClick(resp, probeRaises) ==
    LET r == IF probeRaises THEN Raised
             ELSE FetchCollegeData(agentSport, resp, DefaultSeason) IN
    /\ spc = "idle"
    /\ agentSport # "football"
    /\ AfterFetch(r, r.result)
    /\ lastFetch' = IF probeRaises THEN NoFetch
                    ELSE [adapter |-> "college", resp |-> resp,
                          raised |-> r.raised, result |-> r.result]
    /\ UNCHANGED <<matchesTbl, now, agentSport, lastCall>>
    /\ UNCHANGED <<statsTbl, oddsTbl, refreshes, lastRefresh, recent>>
    /\ UNCHANGED <<pipeVars, concVars>>

\* mutant: the except branch leaves the loop (break for continue) when
\* store_match fails
StoreLoopStep_BreakOnFailure ==
    /\ spc = "storing"
    /\ batchIdx < Len(batch)
    /\ CallStoreMatch(batch[batchIdx + 1])
    /\ IF StoreMatch(matchesTbl, agentSport, batch[batchIdx + 1], now + 1).committed
       THEN /\ batchIdx' = batchIdx + 1
            /\ stored_count' = stored_count + 1
            /\ UNCHANGED spc
       ELSE /\ spc' = "stored"
            /\ UNCHANGED <<batchIdx, stored_count>>
    /\ UNCHANGED <<agentSport, batch>>
    /\ UNCHANGED <<pipeVars, concVars, dataVars>>

\* one iteration of  for match in ...: try: store_match(match);
\* stored_count += 1  except Exception: continue
StoreLoopStep ==
    /\ spc = "storing"
    /\ batchIdx < Len(batch)
    /\ CallStoreMatch(batch[batchIdx + 1])
    /\ batchIdx' = batchIdx + 1
    /\ stored_count' = stored_count + 1
    /\ UNCHANGED <<agentSport, spc, batch>>
    /\ UNCHANGED <<pipeVars, concVars, dataVars>>

\* st.success(f"Stored {stored_count} ...")
StoreLoopDone ==
    /\ spc = "storing"
    /\ batchIdx = Len(batch)
    /\ spc' = "stored"
    /\ UNCHANGED <<matchesTbl, now, agentSport, lastCall, batch, batchIdx,
                   stored_count>>
    /\ UNCHANGED <<pipeVars, concVars, dataVars>>

\* Team Statistics tab: get_recent_matches for a team of the current sport
ViewTeamStats(team_id, limit) ==
    /\ spc = "idle"
    /\ team_id \in TeamsOfSport(matchesTbl, agentSport)
    /\ \E rows \in GetRecentMatches(matchesTbl, team_id, limit) :
          recent' = [team_id |-> team_id, limit |-> limit, rows |-> rows]
    /\ spc' = "viewing"
    /\ UNCHANGED <<matchesTbl, now, agentSport, lastCall, batch, batchIdx,
                   stored_count>>
    /\ UNCHANGED <<statsTbl, oddsTbl, refreshes, lastRefresh, lastFetch>>
    /\ UNCHANGED <<pipeVars, concVars>>

\* st.rerun() / the handler returns
Rerun ==
    /\ spc \in {"stored", "error", "empty", "viewing"}
    /\ spc' = "idle"
    /\ batch' = <<>>
    /\ batchIdx' = 0
    /\ stored_count' = 0
    /\ recent' = NoRecent
    /\ lastFetch' = NoFetch
    /\ UNCHANGED <<matchesTbl, now, agentSport, lastCall>>
    /\ UNCHANGED <<statsTbl, oddsTbl, refreshes, lastRefresh>>
    /\ UNCHANGED <<pipeVars, concVars>>

NextStore ==
    \/ \E sport \in Sports : InitDataAgent(sport)
    \/ \E resp \in FootballResponses : FetchMatchesClick(resp)
    \/ \E resp \in CollegeResponses, p \in BOOLEAN : FetchGamesClick(resp, p)
    \/ StoreLoopStep
    \/ StoreLoopDone
    \/ \E team_id \in {10, 11, 20, 21, 22}, limit \in RecentLimits :
          ViewTeamStats(team_id, limit)
    \/ Rerun

\* ===================================================== BettingEdgePipeline
\* ------------------------------------------------------- query interpreter
\* What the chain  safe_prompt | llm | parser  has to work with: the LLM call
\* fails, its text is not the requested JSON, or it is a JSON object.
Query(sport, team, code, season) ==
    [sport_type |-> sport, team_name |-> team, competition_code |-> code,
     season |-> season]

TeamTargets == {NullStr, Str(<<>>), Str(<<"l", "i", "v">>), Str(<<"V">>),
                Str(<<"z">>)}

LlmOutputs ==
    {[kind |-> k, raw |-> Query("football", NullStr, "", NullJ)] :
        k \in {"llm_error", "unparsable"}}
    \cup {[kind |-> "json", raw |-> Query(sp, tm, "", IntJ(DefaultSeason))] :
            sp \in Sports, tm \in TeamTargets}
    \cup {[kind |-> "json", raw |-> q] :
            q \in {Query("football", NullStr, "PD", IntJ(DefaultSeason)),
                   Query("basketball", NullStr, "", IntJ(23)),
                   Query("tennis", NullStr, "", IntJ(DefaultSeason)),
                   Query("football", Str(<<"V">>), "", NullJ)}}

\* SportsDataQuery: sport_type is a Literal of three values, season a
\* required int, team_name and competition_code optional
ValidQuery(raw) ==
    /\ raw.sport_type \in Sports
    /\ raw.season.t = "int"

None == [none |-> TRUE]

\* mutant: a failed parse falls back to a default query
ParseUserQuery_GuessDefault(out) ==
    IF out.kind = "json" /\ ValidQuery(out.raw) THEN out.raw
    ELSE Query("football", NullStr, "", IntJ(DefaultSeason))

\* parse_user_query: the parsed SportsDataQuery, or None on any exception
ParseUserQuery(out) ==
    IF out.kind = "json" /\ ValidQuery(out.raw) THEN out.raw ELSE None

\* ------------------------------------------------------------- odds lookup
OddsOutcomes == {"quotes", "empty", "transport_error", "http_error"}

MapSportToOddsApi(sport_type) ==
    CASE sport_type = "football" -> "soccer_epl"
      [] sport_type = "basketball" -> "basketball_nba"
      [] sport_type = "college_football" -> "americanfootball_ncaaf"
      [] OTHER -> "soccer_epl"

\* mutant: the except branch returns the error instead of an empty list
GetUpcomingOdds_ErrorEntry(sport_code, outcome) ==
    IF outcome = "quotes" THEN <<[sport_key |-> sport_code]>>
    ELSE IF outcome = "empty" THEN <<>>
    ELSE <<[error |-> outcome]>>

\* OddsAgent.get_upcoming_odds / _get: response.json(), or [] on exception
GetUpcomingOdds(sport_code, outcome) ==
    IF outcome = "quotes" THEN <<[sport_key |-> sport_code]>> ELSE <<>>

\* ------------------------------------------------------ data agent wrapper
\* _fetch_football_data_org is not part of the sources; it is modelled from
\* the adapter contract: well-formed canonical records, or an empty
\* sequence on any upstream failure, and it never raises.
OrgItems == {F1, F2}

OrgResponses ==
    {[kind |-> k, items |-> <<>>] : k \in FailureKinds}
    \cup {[kind |-> "json_response", items |-> q] :
            q \in SeqsUpTo(OrgItems, MaxBatch)}

FetchFootballDataOrg(resp, competition_code, season) ==
    IF resp.kind = "json_response" THEN Returns(resp.items) ELSE Returns(<<>>)

PipelineGames == {G1, G2, GNullTeam, GScalar}

PipelineCollegeResponses ==
    {[kind |-> k, items |-> <<>>] : k \in FailureKinds \cup {"json_object"}}
    \cup {[kind |-> "json_list", items |-> q] :
            q \in SeqsUpTo(PipelineGames, MaxBatch)}

\* DataAgent.fetch_matches(year=season) on a college agent
FetchMatches(sport, resp, year) == FetchCollegeData(sport, resp, year)

\* DataAgentLC.invoke(params)
DataAgentInvoke(params, resp) ==
    IF params.sport_type = "football"
    THEN FetchFootballDataOrg(resp,
             IF params.competition_code = "" THEN "PL"
             ELSE params.competition_code,
             params.season.v)
    ELSE FetchMatches(params.sport_type, resp, params.season.v)

\* the request the wrapper sends upstream
FetchRequest(params) ==
    [sport |-> params.sport_type,
     competition_code |-> IF params.sport_type # "football" THEN ""
                          ELSE IF params.competition_code = "" THEN "PL"
                          ELSE params.competition_code,
     season |-> params.season.v]

\* --------------------------------------------------------------- the filter
\* m.get("teams", {}).get(side, {}).get("name", "")
TeamName(m, side) ==
    Get(Get(Get(m, "teams", <<>>), side, <<>>), "name", Str(<<>>))

\* mutant: the target is not lower-cased
TargetTeam_NoLower(team_name) ==
    IF team_name.t = "null" \/ team_name.s = <<>> THEN NullStr
    ELSE Str(team_name.s)

\* structured.team_name.lower() if structured.team_name else None
TargetTeam(team_name) ==
    IF team_name.t = "null" \/ team_name.s = <<>> THEN NullStr
    ELSE Str(Lower(team_name.s))

\* the loop  for m in matches: ...  ; .lower() on a name that is None raises
RECURSIVE FilterLoop(_, _, _, _)
FilterLoop(ms, i, target, acc) ==
    IF i > Len(ms) THEN Returns(acc)
    ELSE LET home == TeamName(ms[i], "home")
             away == TeamName(ms[i], "away") IN
         IF home.t = "null" \/ away.t = "null" THEN Raised
         ELSE IF \/ target.t = "null"
                 \/ IsSubstr(target.s, Lower(home.s))
                 \/ IsSubstr(target.s, Lower(away.s))
              THEN FilterLoop(ms, i + 1, target, Append(acc, ms[i]))
              ELSE FilterLoop(ms, i + 1, target, acc)

\* mutant: the first passing match is selected instead of the whole list
FilterMatches_FirstOnly(ms, team_name) ==
    LET f == FilterLoop(ms, 1, TargetTeam(team_name), <<>>) IN
    IF f.raised THEN f ELSE Returns(Take(f.result, 1))

FilterMatches(ms, team_name) ==
    FilterLoop(ms, 1, TargetTeam(team_name), <<>>)

\* ------------------------------------------------------------------- run()
NoEnvelope == [status |-> "none"]
NoOutput == [kind |-> "none", raw |-> Query("football", NullStr, "", NullJ)]
NoDeep == [stage |-> "none"]

\* rows a previous session left in betting_edge.db
InitialTables == {{}, {RowOf("football", F1, 0)}}

InitPipe ==
    /\ ppc = "idle"
    /\ llm_out = NoOutput
    /\ intent = None
    /\ odds_data = <<>>
    /\ matches = <<>>
    /\ envelope = NoEnvelope
    /\ fetchLog = <<>>
    /\ oddsLog = <<>>
    /\ capLog = <<>>
    /\ tblAtStart = {}
    /\ deep = NoDeep

\* ------------------------------------------ connections of concurrent runs
\* two ingestion runs (two sessions of the dashboard) writing the database
\* file through connections of their own
Writers == {"w1", "w2"}

IdleWriter == [pc |-> "idle", sport |-> "football", rec |-> F1, ts |-> 0,
               outcome |-> "none"]

NoObserved == [match_id |-> 0, row |-> NoRow, lock |-> "none"]

InitConc ==
    /\ writers = [w \in Writers |-> IdleWriter]
    /\ dbLock = "none"
    /\ commitLog = <<>>
    /\ observed = NoObserved

InitData ==
    /\ InitConc
    /\ statsTbl = {}
    /\ oddsTbl = {}
    /\ refreshes = 0
    /\ lastRefresh = NoRefresh
    /\ recent = NoRecent
    /\ lastFetch = NoFetch

Init == InitStore /\ InitPipe /\ InitData

SpecStore == Init /\ [][NextStore]_vars

\* the three dicts run() returns
QueryErrorEnvelope == [status |-> "query_error", message |-> "could_not_parse"]

\* mutant: the no_matches dict is returned without the request
NoMatchesEnvelope_NoRequest(structured, odds, message) ==
    [status |-> "no_matches", request |-> None, odds |-> odds,
     message |-> message]

NoMatchesEnvelope(structured, odds, message) ==
    [status |-> "no_matches", request |-> structured, odds |-> odds,
     message |-> message]

OkEnvelope(structured, filtered, odds) ==
    [status |-> "ok", structured_query |-> structured,
     filtered_matches |-> filtered, odds |-> odds, message |-> "found"]

\* Step 1: structured = self.query_agent.invoke(user_query)
RunInterpret(out) ==
    LET structured == ParseUserQuery(out) IN
    /\ ppc = "idle"
    /\ llm_out' = out
    /\ tblAtStart' = matchesTbl
    /\ fetchLog' = <<>>
    /\ oddsLog' = <<>>
    /\ capLog' = <<>>
    /\ odds_data' = <<>>
    /\ matches' = <<>>
    /\ IF structured = None
       THEN /\ envelope' = QueryErrorEnvelope
            /\ intent' = None
            /\ ppc' = "run_done"
       ELSE /\ envelope' = NoEnvelope
            /\ intent' = structured
            /\ ppc' = "run_odds"
    /\ UNCHANGED <<storeVars, dataVars, concVars, deep>>

\* odds_data = self.odds_agent.get_upcoming_odds(sport_code)
RunOdds(outcome) ==
    LET sport_code == MapSportToOddsApi(intent.sport_type) IN
    /\ ppc = "run_odds"
    /\ odds_data' = GetUpcomingOdds(sport_code, outcome)
    /\ oddsLog' = Append(oddsLog, [sport |-> sport_code, outcome |-> outcome])
    /\ ppc' = "run_fetch"
    /\ UNCHANGED <<storeVars, dataVars, concVars, llm_out, intent, matches, envelope, fetchLog,
                   capLog, tblAtStart, deep>>

\* Step 2: matches = self.data_agent.invoke(structured.dict())
RunFetch(resp) ==
    LET r == DataAgentInvoke(intent, resp) IN
    /\ ppc = "run_fetch"
    /\ resp \in (IF intent.sport_type = "football" THEN OrgResponses
                 ELSE PipelineCollegeResponses)
    /\ fetchLog' = Append(fetchLog, FetchRequest(intent))
    /\ IF r.raised
       THEN /\ ppc' = "run_raised"
            /\ UNCHANGED <<matches, envelope>>
       ELSE IF r.result = <<>>
       THEN /\ ppc' = "run_done"
            /\ envelope' = NoMatchesEnvelope(intent, odds_data, "no_results")
            /\ matches' = r.result
       ELSE /\ ppc' = "run_filter"
            /\ matches' = r.result
            /\ UNCHANGED envelope
    /\ UNCHANGED <<storeVars, dataVars, concVars, llm_out, intent, odds_data, oddsLog, capLog,
                   tblAtStart, deep>>

\* the filter loop and the two returns that follow it
RunFilter ==
    LET f == FilterMatches(matches, intent.team_name) IN
    /\ ppc = "run_filter"
    /\ IF f.raised
       THEN /\ ppc' = "run_raised"
            /\ UNCHANGED envelope
       ELSE IF f.result = <<>>
       THEN /\ ppc' = "run_done"
            /\ envelope' = NoMatchesEnvelope(intent, odds_data,
                                              "none_after_filter")
       ELSE /\ ppc' = "run_done"
            /\ envelope' = OkEnvelope(intent, f.result, odds_data)
    /\ UNCHANGED <<storeVars, dataVars, concVars, llm_out, intent, odds_data, matches, fetchLog,
                   oddsLog, capLog, tblAtStart, deep>>

\* the caller has the envelope (or the exception); the next call may start
PipelineReturn ==
    /\ ppc \in {"run_done", "run_raised", "deep_done", "deep_raised"}
    /\ ppc' = "idle"
    /\ llm_out' = NoOutput
    /\ intent' = None
    /\ odds_data' = <<>>
    /\ matches' = <<>>
    /\ envelope' = NoEnvelope
    /\ fetchLog' = <<>>
    /\ oddsLog' = <<>>
    /\ capLog' = <<>>
    /\ tblAtStart' = {}
    /\ deep' = NoDeep
    /\ UNCHANGED <<storeVars, dataVars, concVars>>

\* ------------------------------------------------------ run_deep_analysis()
\* What an LLM-backed capability has to work with: the call raises, the text
\* is not JSON, or it is JSON of the expected shape, another object, or not
\* an object at all.
LlmReplies == {"llm_error", "not_json", "json_expected", "json_other_object",
               "json_non_object"}

\* json.loads(out), or the default when it raises
ParsedOrDefault(reply, default) ==
    CASE reply = "not_json" -> default
      [] reply = "json_expected" -> [default EXCEPT !.source = "llm"]
      [] reply = "json_other_object" -> [shape |-> "other_object", source |-> "llm"]
      [] OTHER -> [shape |-> "non_object", source |-> "llm"]

PredictionDefault   == [shape |-> "probability_triple", source |-> "default"]
VerificationDefault == [shape |-> "edge_confidence", source |-> "default"]
EthicsDefault       == [shape |-> "status_pass", source |-> "default"]

AllowedActions == {"neutral", "safe", "value", "high_risk", "summary", "explain"}
BehaviorReplies == {"llm_error", "value", "explain", "something else"}

\* get_full_match_context is not part of the sources; it is modelled from the
\* Context Assembler contract: always a bundle of three parts, a part with
\* no data is an empty object.
GetFullMatchContext(tbl, match_id) ==
    [match_details   |-> {r \in tbl : r.match_id = match_id},
     home_team_stats |-> {},
     latest_odds     |-> {}]

SelectableMatches == {F1, F2, ConvertGame("college_football", G1, DefaultSeason)}
EmptyMatch == [k \in {} |-> 0]

\* if not selected_match: return the error dict
DeepStart(selected_match) ==
    /\ ppc = "idle"
    /\ tblAtStart' = matchesTbl
    /\ capLog' = <<>>
    /\ IF DOMAIN selected_match = {}
       THEN /\ envelope' = [status |-> "error", message |-> "no_match"]
            /\ deep' = NoDeep
            /\ ppc' = "deep_done"
       ELSE /\ envelope' = NoEnvelope
            /\ deep' = [match |-> selected_match]
            /\ ppc' = "deep_predict"
    /\ UNCHANGED <<storeVars, dataVars, concVars, llm_out, intent, odds_data, matches, fetchLog,
                   oddsLog>>

\* a capability whose LLM call is outside its try block
DeepLlmStage(stage, next, cap, input, reply, field, default) ==
    /\ ppc = stage
    /\ capLog' = Append(capLog, [cap |-> cap, input |-> input])
    /\ IF reply = "llm_error"
       THEN /\ ppc' = "deep_raised"
            /\ UNCHANGED deep
       ELSE /\ ppc' = next
            /\ deep' = [k \in (DOMAIN deep) \cup {field} |->
                          IF k = field THEN ParsedOrDefault(reply, default)
                          ELSE deep[k]]
    /\ UNCHANGED <<storeVars, dataVars, concVars, llm_out, intent, odds_data, matches, envelope,
                   fetchLog, oddsLog, tblAtStart>>

\* Step 3: prediction = self.prediction_agent.invoke(selected_match)
DeepPredict(reply) ==
    DeepLlmStage("deep_predict", "deep_verify", "prediction", deep.match, reply,
                 "prediction", PredictionDefault)

\* mutant: verification is handed the match instead of the prediction
DeepVerify_GetsMatch(reply) ==
    DeepLlmStage("deep_verify", "deep_behavior", "verification",
                 deep.match, reply, "verification", VerificationDefault)

\* Step 4: verification = self.verification_agent.invoke(prediction)
DeepVerify(reply) ==
    DeepLlmStage("deep_verify", "deep_behavior", "verification",
                 deep.prediction, reply, "verification", VerificationDefault)

\* Step 5: action = self.behavior_agent.invoke({"state": "placeholder"})
DeepBehavior(reply) ==
    /\ ppc = "deep_behavior"
    /\ capLog' = Append(capLog, [cap |-> "behavior", input |-> "placeholder"])
    /\ IF reply = "llm_error"
       THEN /\ ppc' = "deep_raised"
            /\ UNCHANGED deep
       ELSE /\ ppc' = "deep_recommend"
            /\ deep' = [k \in (DOMAIN deep) \cup {"action"} |->
                          IF k = "action"
                          THEN (IF reply \in AllowedActions THEN reply
                                ELSE "neutral")
                          ELSE deep[k]]
    /\ UNCHANGED <<storeVars, dataVars, concVars, llm_out, intent, odds_data, matches, envelope,
                   fetchLog, oddsLog, tblAtStart>>

\* mutant: match_details is indexed before the try block, which raises for
\* an event the store does not hold
DeepRecommend_RaisesOnEmptyContext(reply) ==
    LET ctx == GetFullMatchContext(matchesTbl, deep.match.fixture.id.v) IN
    /\ ppc = "deep_recommend"
    /\ capLog' = Append(capLog,
                   [cap |-> "recommendation",
                    input |-> [match |-> deep.match,
                               prediction |-> deep.prediction,
                               verification |-> deep.verification,
                               action |-> deep.action]])
    /\ IF ctx.match_details = {}
       THEN /\ ppc' = "deep_raised"
            /\ UNCHANGED deep
       ELSE /\ ppc' = "deep_ethics"
            /\ deep' = [k \in (DOMAIN deep) \cup {"context", "recommendation"} |->
                          IF k = "context" THEN ctx
                          ELSE IF k = "recommendation" THEN "recommendation"
                          ELSE deep[k]]
    /\ UNCHANGED <<storeVars, dataVars, concVars, llm_out, intent, odds_data, matches,
                   envelope, fetchLog, oddsLog, tblAtStart>>

\* Step 6: RecommendationAgentLC.invoke: the context lookup, then inside the
\* try block the reads of prediction and verification and the LLM call; any
\* exception there becomes the returned error text
DeepRecommend(reply) ==
    LET ctx == GetFullMatchContext(matchesTbl, deep.match.fixture.id.v)
        readable == /\ deep.prediction.shape = "probability_triple"
                    /\ deep.verification.shape = "edge_confidence"
        text == IF readable /\ reply = "text" THEN "recommendation"
                ELSE "Error during recommendation synthesis"
    IN
    /\ ppc = "deep_recommend"
    /\ capLog' = Append(capLog,
                   [cap |-> "recommendation",
                    input |-> [match |-> deep.match,
                               prediction |-> deep.prediction,
                               verification |-> deep.verification,
                               action |-> deep.action]])
    /\ ppc' = "deep_ethics"
    /\ deep' = [k \in (DOMAIN deep) \cup {"context", "recommendation"} |->
                  IF k = "context" THEN ctx
                  ELSE IF k = "recommendation" THEN text
                  ELSE deep[k]]
    /\ UNCHANGED <<storeVars, dataVars, concVars, llm_out, intent, odds_data, matches, envelope,
                   fetchLog, oddsLog, tblAtStart>>

\* Step 7: ethics = self.ethics_agent.invoke(recommendation)
DeepEthics(reply) ==
    DeepLlmStage("deep_ethics", "deep_return", "ethics", deep.recommendation,
                 reply, "ethics", EthicsDefault)

\* return {"status": "ok", ...}
DeepReturn ==
    /\ ppc = "deep_return"
    /\ ppc' = "deep_done"
    /\ envelope' = [status |-> "ok", match |-> deep.match,
                    prediction |-> deep.prediction,
                    verification |-> deep.verification,
                    action |-> deep.action,
                    recommendation |-> deep.recommendation,
                    ethics |-> deep.ethics]
    /\ UNCHANGED <<storeVars, dataVars, concVars, llm_out, intent, odds_data, matches, fetchLog,
                   oddsLog, capLog, tblAtStart, deep>>

NextPipeline ==
    \/ \E out \in LlmOutputs : RunInterpret(out)
    \/ \E outcome \in OddsOutcomes : RunOdds(outcome)
    \/ \E resp \in OrgResponses \cup PipelineCollegeResponses : RunFetch(resp)
    \/ RunFilter
    \/ \E m \in SelectableMatches \cup {EmptyMatch} : DeepStart(m)
    \/ \E reply \in LlmReplies : DeepPredict(reply)
    \/ \E reply \in LlmReplies : DeepVerify(reply)
    \/ \E reply \in BehaviorReplies : DeepBehavior(reply)
    \/ \E reply \in {"llm_error", "text"} : DeepRecommend(reply)
    \/ \E reply \in LlmReplies : DeepEthics(reply)
    \/ DeepReturn
    \/ PipelineReturn

InitPipeline ==
    /\ InitPipe
    /\ InitData
    /\ matchesTbl \in InitialTables
    /\ now = 0
    /\ agentSport = "football"
    /\ lastCall = NoCall
    /\ spc = "idle"
    /\ batch = <<>>
    /\ batchIdx = 0
    /\ stored_count = 0

SpecPipeline == InitPipeline /\ [][NextPipeline]_vars

\* ---------------------------------------------- upstream that never answers
\* requests.get is called without a timeout in OddsAgent._get and in
\* _fetch_college_data: when the server accepts the request and never
\* answers, the call does not return and run() stays inside it
RunCallHangs ==
    /\ \/ ppc = "run_odds"
       \/ ppc = "run_fetch" /\ intent.sport_type # "football"
    /\ IF ppc = "run_odds"
       THEN /\ oddsLog' = Append(oddsLog,
                            [sport |-> MapSportToOddsApi(intent.sport_type),
                             outcome |-> "no_response"])
            /\ UNCHANGED fetchLog
       ELSE /\ fetchLog' = Append(fetchLog, FetchRequest(intent))
            /\ UNCHANGED oddsLog
    /\ ppc' = "run_blocked"
    /\ UNCHANGED <<storeVars, dataVars, concVars, llm_out, intent, odds_data, matches,
                   envelope, capLog, tblAtStart, deep>>

NextHang == NextPipeline \/ RunCallHangs

SpecHang == InitPipeline /\ [][NextHang]_vars

\* ------------------------------------------- dashboard: refresh match data
\* button "Refresh Match Data (Odds/Stats)" on a football match of the store;
\* an exception of the call is shown with st.error
RefreshClick(match_id, oddsResp, statsResp) ==
    /\ spc = "idle"
    /\ agentSport = "football"
    /\ refreshes < MaxRefresh
    /\ \E r \in matchesTbl : r.match_id = match_id /\ r.sport_type = "football"
    /\ RefreshDataForMatch(match_id, oddsResp, statsResp)
    /\ UNCHANGED <<storeVars, pipeVars, concVars, recent, lastFetch>>

\* refresh_data_for_match called on the agent by a client other than the
\* dashboard, whatever the agent's sport and whatever the store holds
RefreshCall(match_id, oddsResp, statsResp) ==
    /\ spc = "idle"
    /\ agentSport # "football"
    /\ refreshes < MaxRefresh
    /\ RefreshDataForMatch(match_id, oddsResp, statsResp)
    /\ UNCHANGED <<storeVars, pipeVars, concVars, recent, lastFetch>>

NextRefresh ==
    \/ \E sport \in Sports : InitDataAgent(sport)
    \/ \E match_id \in {1, 2}, oddsResp \in OddsResponses,
          statsResp \in StatsResponses :
             RefreshClick(match_id, oddsResp, statsResp)
    \/ \E match_id \in {1, 2}, oddsResp \in OddsResponses,
          statsResp \in StatsResponses :
             RefreshCall(match_id, oddsResp, statsResp)

\* the store a previous session left: the fixtures 1 and 2 of the football feed
InitRefresh ==
    /\ InitPipe
    /\ InitData
    /\ now = 0
    /\ agentSport = "football"
    /\ lastCall = NoCall
    /\ spc = "idle"
    /\ batch = <<>>
    /\ batchIdx = 0
    /\ stored_count = 0
    /\ matchesTbl \in {{RowOf("football", F1, 0)},
                       {RowOf("football", F1, 0), RowOf("football", F2, 0)}}

SpecRefresh == InitRefresh /\ [][NextRefresh]_vars

\* --------------------------------------------- dashboard: queries on a store
\* a football fixture the provider reported with the status text 'finished'
FFinished == Event(IntJ(3), 7, "finished", "Anfield", "Premier League", 2023,
                   10, Liverpool, 12, Chelsea, IntJ(1), IntJ(1))

\* stores earlier sessions left: two store_match calls on an empty database
StoredRecords ==
    {[sport |-> "football", rec |-> r] : r \in {F1, F2, FFinished}}
    \cup {[sport |-> "college_football",
           rec |-> ConvertGame("college_football", g, DefaultSeason)] :
            g \in {G1, G2}}

StoredTables ==
    {StoreMatch(StoreMatch({}, a.sport, a.rec, 0).table, b.sport, b.rec, 0).table :
        a \in StoredRecords, b \in StoredRecords}

InitQuery ==
    /\ InitPipe
    /\ InitData
    /\ matchesTbl \in StoredTables
    /\ now = 0
    /\ agentSport = "football"
    /\ lastCall = NoCall
    /\ spc = "idle"
    /\ batch = <<>>
    /\ batchIdx = 0
    /\ stored_count = 0

NextQuery ==
    \/ \E sport \in Sports : InitDataAgent(sport)
    \/ \E team_id \in {10, 11, 12, 13, 20, 21, 22}, limit \in RecentLimits :
          ViewTeamStats(team_id, limit)
    \/ Rerun

SpecQuery == InitQuery /\ [][NextQuery]_vars

\* ------------------------------------- store_match from two runs at a time
\* SQLite in its default journal mode: the first write statement of a
\* transaction takes the database's write lock, which one connection holds
\* at a time; the changes stay in that connection until COMMIT, which
\* publishes them in one step; a connection that cannot get the lock within
\* the busy timeout gets OperationalError("database is locked").
ConcurrentRecords == {F1, F1b, FNoGoals}

\* store_match up to the parameter tuple: connect, read the four members
\* (KeyError for a missing one: except, rollback, close), datetime.now()
WriterPrepare(w, rec) ==
    /\ writers[w].pc = "idle"
    /\ now < MaxNow
    /\ now' = now + 1
    /\ writers' = [writers EXCEPT ![w] =
                     IF RequiredKeys \subseteq DOMAIN rec
                     THEN [pc |-> "prepared", sport |-> agentSport,
                           rec |-> rec, ts |-> now + 1, outcome |-> "none"]
                     ELSE [pc |-> "returned", sport |-> agentSport,
                           rec |-> rec, ts |-> now + 1,
                           outcome |-> "rolled_back"]]
    /\ UNCHANGED <<matchesTbl, agentSport, lastCall, spc, batch, batchIdx,
                   stored_count>>
    /\ UNCHANGED <<pipeVars, dataVars, dbLock, commitLog, observed>>

\* cursor.execute(INSERT OR REPLACE ...): takes the write lock, or raises
\* after the busy timeout while the other connection holds it (except,
\* rollback, close: the write is dropped)
WriterExecute(w) ==
    /\ writers[w].pc = "prepared"
    /\ IF dbLock = "none"
       THEN /\ dbLock' = w
            /\ writers' = [writers EXCEPT ![w].pc = "executed"]
       ELSE /\ UNCHANGED dbLock
            /\ writers' = [writers EXCEPT ![w].pc = "returned",
                                          ![w].outcome = "locked"]
    /\ UNCHANGED <<storeVars, pipeVars, dataVars, commitLog, observed>>

\* mutant: the row is written by two transactions, the identifying columns
\* first and the result columns later
WriterCommit_ResultLater(w) ==
    LET new == RowOf(writers[w].sport, writers[w].rec, writers[w].ts)
        old == GetMatchData(matchesTbl, new.match_id)
        row == IF old = NoRow THEN new
               ELSE [new EXCEPT !.home_score = old.home_score,
                                !.away_score = old.away_score,
                                !.status = old.status]
    IN
    /\ writers[w].pc = "executed"
    /\ dbLock = w
    /\ matchesTbl' = InsertOrReplace(matchesTbl, row)
    /\ dbLock' = "none"
    /\ commitLog' = Append(commitLog, [writer |-> w, sport |-> writers[w].sport,
                                       rec |-> writers[w].rec,
                                       ts |-> writers[w].ts])
    /\ writers' = [writers EXCEPT ![w].pc = "returned",
                                  ![w].outcome = "committed"]
    /\ UNCHANGED <<now, agentSport, lastCall, spc, batch, batchIdx,
                   stored_count>>
    /\ UNCHANGED <<pipeVars, dataVars, observed>>

\* conn.commit(): the replaced row becomes the database's row in one step
\* and the lock is released
WriterCommit(w) ==
    /\ writers[w].pc = "executed"
    /\ dbLock = w
    /\ matchesTbl' = StoreMatch(matchesTbl, writers[w].sport, writers[w].rec,
                                writers[w].ts).table
    /\ dbLock' = "none"
    /\ commitLog' = Append(commitLog, [writer |-> w, sport |-> writers[w].sport,
                                       rec |-> writers[w].rec,
                                       ts |-> writers[w].ts])
    /\ writers' = [writers EXCEPT ![w].pc = "returned",
                                  ![w].outcome = "committed"]
    /\ UNCHANGED <<now, agentSport, lastCall, spc, batch, batchIdx,
                   stored_count>>
    /\ UNCHANGED <<pipeVars, dataVars, observed>>

\* conn.close(); store_match returns and the run goes on to its next record
WriterReturn(w) ==
    /\ writers[w].pc = "returned"
    /\ writers' = [writers EXCEPT ![w] = IdleWriter]
    /\ UNCHANGED <<storeVars, pipeVars, dataVars, dbLock, commitLog, observed>>

\* get_match_data(match_id) on a third connection: the SELECT reads the
\* committed database, whoever holds the write lock
ReaderRead(match_id) ==
    /\ observed' = [match_id |-> match_id,
                    row |-> GetMatchData(matchesTbl, match_id),
                    lock |-> dbLock]
    /\ UNCHANGED <<storeVars, pipeVars, dataVars, writers, dbLock, commitLog>>

NextConcurrent ==
    \/ \E w \in Writers, rec \in ConcurrentRecords : WriterPrepare(w, rec)
    \/ \E w \in Writers : WriterExecute(w)
    \/ \E w \in Writers : WriterCommit(w)
    \/ \E w \in Writers : WriterReturn(w)
    \/ \E match_id \in {1, 2} : ReaderRead(match_id)

\* the store a previous session left: empty, or fixture 1 before kick-off
InitConcurrent ==
    /\ InitPipe
    /\ InitData
    /\ matchesTbl \in {{}, {RowOf("football", F1b, 0)}}
    /\ now = 0
    /\ agentSport = "football"
    /\ lastCall = NoCall
    /\ spc = "idle"
    /\ batch = <<>>
    /\ batchIdx = 0
    /\ stored_count = 0

SpecConcurrent == InitConcurrent /\ [][NextConcurrent]_vars

\* ================================================================== claims
RunPositions == {"run_odds", "run_fetch", "run_filter", "run_done", "run_raised"}

\* the interpreter produced no object of the SportsDataQuery schema
InterpreterFailed(out) ==
    \/ out.kind # "json"
    \/ out.raw.sport_type \notin {"football", "college_football", "basketball"}
    \/ out.raw.season.t # "int"

\* C1: run() always ends by returning an envelope whose status is one of
\* query_error, no_matches, ok; it never ends by raising to its caller.
C1_RunAlwaysReturnsEnvelope ==
    /\ ppc # "run_raised"
    /\ ppc = "run_done" =>
          envelope.status \in {"query_error", "no_matches", "ok"}

\* C2: when the interpreter cannot produce a valid intent, run() returns
\* query_error, no provider fetch was issued, no row of the store was
\* written, and no intent was made up in its place.
C2_QueryErrorNoFetchNoWrite ==
    (ppc \in RunPositions /\ InterpreterFailed(llm_out)) =>
        /\ ppc = "run_done"
        /\ envelope.status = "query_error"
        /\ intent = None
        /\ fetchLog = <<>>
        /\ matchesTbl = tblAtStart

C2_Witness ==
    /\ ppc = "run_done"
    /\ envelope.status = "query_error"
    /\ llm_out.kind = "json"
    /\ llm_out.raw.sport_type = "tennis"
    /\ tblAtStart # {}

\* the data agent has returned (not raised) in the current run
AdapterReturned ==
    /\ ppc \in {"run_filter", "run_done", "run_raised"}
    /\ fetchLog # <<>>
    /\ ~(ppc = "run_raised" /\ matches = <<>>)

\* C3: a valid intent and an empty adapter result end run() in no_matches,
\* the envelope carries the intent, and no row of the store was written.
C3_EmptyResultNoMatches ==
    (AdapterReturned /\ matches = <<>>) =>
        /\ ppc = "run_done"
        /\ envelope.status = "no_matches"
        /\ envelope.request = llm_out.raw
        /\ ~InterpreterFailed(llm_out)
        /\ matchesTbl = tblAtStart

C3_Witness ==
    /\ ppc = "run_done"
    /\ envelope.status = "no_matches"
    /\ envelope.message = "no_results"
    /\ envelope.request.team_name = Str(<<"l", "i", "v">>)
    /\ Len(fetchLog) = 1
    /\ tblAtStart # {}

\* upper and lower case of one letter
CasePairs == {<<"L", "l">>, <<"A", "a">>, <<"C", "c">>, <<"E", "e">>,
              <<"I", "i">>, <<"V", "v">>, <<"T", "t">>, <<"B", "b">>,
              <<"D", "d">>}
SameLetter(a, b) == a = b \/ <<a, b>> \in CasePairs \/ <<b, a>> \in CasePairs

\* name contains t, case-insensitively
ContainsIgnoreCase(name, t) ==
    \E off \in 0..(Len(name) - Len(t)) :
        \A j \in 1..Len(t) : SameLetter(name[off + j], t[j])

\* the event passes the team filter of the intent
PassesTeamFilter(m, team_name) ==
    \/ team_name.t = "null"
    \/ ContainsIgnoreCase(m.teams.home.name.s, team_name.s)
    \/ ContainsIgnoreCase(m.teams.away.name.s, team_name.s)

PassingEvents(ms, team_name) ==
    SelectSeq(ms, LAMBDA m : PassesTeamFilter(m, team_name))

C5_FilterCorrect ==
    (ppc = "run_done" /\ matches # <<>>) =>
        LET expected == PassingEvents(matches, intent.team_name) IN
        /\ expected = <<>> => envelope.status = "no_matches"
        /\ expected # <<>> =>
              /\ envelope.status = "ok"
              /\ envelope.filtered_matches = expected
        /\ intent.team_name.t = "null" =>
              /\ envelope.status = "ok"
              /\ envelope.filtered_matches = matches

C5_Witness ==
    /\ ppc = "run_done"
    /\ envelope.status = "ok"
    /\ intent.team_name = Str(<<"l", "i", "v">>)
    /\ matches = <<F1, F2>>
    /\ envelope.filtered_matches = <<F1>>

\* C6: after a run() in which the adapter returned events, every returned
\* event has a row in the events store.
C6_RetrievedEventsPersisted ==
    (ppc = "run_done" /\ matches # <<>>) =>
        \A i \in 1..Len(matches) :
            \E r \in matchesTbl : r.match_id = matches[i].fixture.id.v

\* the record cannot be written: a part is missing or the id is no integer
Malformed(rec) ==
    \/ ~({"fixture", "league", "teams", "goals"} \subseteq DOMAIN rec)
    \/ rec.fixture.id.t # "int"

UniqueEventIds(tbl) ==
    \A r1, r2 \in tbl : r1.match_id = r2.match_id => r1 = r2

\* the row holds the values of the record (the timestamp aside)
RowHolds(r, rec, sport) ==
    /\ r.match_id = rec.fixture.id.v
    /\ r.sport_type = sport
    /\ r.league_id = rec.league.id
    /\ r.league_name = rec.league.name
    /\ r.season = rec.league.season
    /\ r.match_date = rec.fixture.date
    /\ r.home_team_id = rec.teams.home.id
    /\ r.home_team_name = rec.teams.home.name
    /\ r.away_team_id = rec.teams.away.id
    /\ r.away_team_name = rec.teams.away.name
    /\ r.home_score = rec.goals.home
    /\ r.away_score = rec.goals.away
    /\ r.status = rec.fixture.status.long
    /\ r.venue = rec.fixture.venue.name

WithoutTimestamps(tbl) == {[r EXCEPT !.last_updated = 0] : r \in tbl}

\* C7: the events table holds at most one row per event_id; after a
\* successful store_match of a record the one row of its event_id holds that
\* record's values; storing the same record again leaves the same table
\* (timestamps aside).
C7_IdempotentUpsert ==
    [][/\ UniqueEventIds(matchesTbl')
       /\ (lastCall'.at # lastCall.at /\ lastCall'.committed) =>
             \A r \in matchesTbl' :
                r.match_id = lastCall'.rec.fixture.id.v =>
                   RowHolds(r, lastCall'.rec, lastCall'.sport)
       /\ (lastCall'.at # lastCall.at /\ lastCall'.committed) =>
             \E r \in matchesTbl' : r.match_id = lastCall'.rec.fixture.id.v
       /\ ( /\ lastCall'.at = lastCall.at + 1
            /\ lastCall.at > 0
            /\ lastCall.committed
            /\ lastCall'.rec = lastCall.rec
            /\ lastCall'.sport = lastCall.sport ) =>
             WithoutTimestamps(matchesTbl') = WithoutTimestamps(matchesTbl)
      ]_vars

C7_Witness ==
    /\ spc = "storing"
    /\ batchIdx = 2
    /\ batch[1] = F1
    /\ batch[2] = F1b
    /\ lastCall.rec = F1b
    /\ lastCall.committed
    /\ \E r \in matchesTbl :
          r.match_id = 1 /\ r.status = "Not Started" /\ r.last_updated = now

\* C8: a store_match that fails leaves every row of the events table,
\* the previous row of that event_id included, as it was before the call.
C8_FailedWriteRolledBack ==
    [][(lastCall'.at # lastCall.at /\ Malformed(lastCall'.rec)) =>
          matchesTbl' = matchesTbl]_vars

C8_Witness ==
    /\ lastCall.at > 0
    /\ lastCall.rec = FNoGoals
    /\ ~lastCall.committed
    /\ \E r \in matchesTbl : r.match_id = FNoGoals.fixture.id.v

\* C9: a store_match that fails hands its caller an error outcome that
\* differs from the outcome of a successful write.
C9_FailureSurfaced ==
    (lastCall.at > 0 /\ Malformed(lastCall.rec)) => lastCall.result # "None"

\* C10: when the store loop has finished, every well-formed event of the
\* batch, before and after a failing one, has the row written for it (or for
\* a later event of the batch with its event_id).
C10_BatchContinuesOnError ==
    spc = "stored" =>
        \A i \in 1..Len(batch) :
            ~Malformed(batch[i]) =>
                \E r \in matchesTbl :
                    /\ r.match_id = batch[i].fixture.id.v
                    /\ r.last_updated >= now - Len(batch) + i

C10_Witness ==
    /\ spc = "stored"
    /\ Len(batch) = 3
    /\ ~Malformed(batch[1])
    /\ Malformed(batch[2])
    /\ ~Malformed(batch[3])
    /\ batch[1].fixture.id.v # batch[3].fixture.id.v
    /\ \E r \in matchesTbl : r.match_id = batch[1].fixture.id.v
    /\ \E r \in matchesTbl : r.match_id = batch[3].fixture.id.v

\* C11: the statistics table holds at most one row per (event_id, team_id).
C11_StatsOneRowPerPair ==
    \A r1, r2 \in statsTbl :
        (r1.match_id = r2.match_id /\ r1.team_id = r2.team_id) => r1 = r2

\* number of Match Winner bets of an odds payload
WinnerBetCount(odds) ==
    Cardinality({<<i, j>> \in (1..2) \X (1..2) :
                    /\ i <= Len(odds.bookmakers)
                    /\ j <= Len(odds.bookmakers[i].bets)
                    /\ odds.bookmakers[i].bets[j].name = "Match Winner"})

\* C12: no step removes or changes a row of the odds table; a store_odds
\* call that completes adds one new row per Match Winner quote of its
\* payload, stamped with the time of the call, also when the table already
\* holds a quote of that event and bookmaker.
C12_OddsAppendOnly ==
    [][/\ oddsTbl \subseteq oddsTbl'
       /\ \A r \in oddsTbl' \ oddsTbl :
             /\ r.last_updated = refreshes'
             /\ r.match_id = lastRefresh'.match_id
       /\ (refreshes' # refreshes /\ lastRefresh'.odds_stored) =>
             Cardinality(oddsTbl' \ oddsTbl)
                = WinnerBetCount(lastRefresh'.odds_data)
      ]_vars

C12_Witness ==
    \E r1, r2 \in oddsTbl :
        /\ r1.match_id = r2.match_id
        /\ r1.bookmaker = r2.bookmaker
        /\ r1.last_updated = 1
        /\ r2.last_updated = 2
        /\ r1.home_odds # r2.home_odds

\* statuses that mean the event is over
FinishedStatuses == {"Match Finished", "completed", "finished"}

\* the row is a finished event with the team as home or away side
EligibleRecent(r, team_id) ==
    /\ r.home_team_id = team_id \/ r.away_team_id = team_id
    /\ r.status \in FinishedStatuses

\* C13: get_recent_matches(team_id, limit) returns only finished events of
\* team_id, without repetition, in descending schedule order, as many as
\* there are up to limit, and no finished event of the team that was left
\* out is scheduled later than a returned one.
C13_RecentMatchesOfTeam ==
    spc = "viewing" =>
        LET rows == recent.rows
            eligible == {r \in matchesTbl : EligibleRecent(r, recent.team_id)}
        IN
        /\ \A i \in 1..Len(rows) : rows[i] \in eligible
        /\ \A i, j \in 1..Len(rows) : i < j =>
              /\ rows[i] # rows[j]
              /\ rows[i].match_date >= rows[j].match_date
        /\ Len(rows) = (IF Cardinality(eligible) < recent.limit
                        THEN Cardinality(eligible) ELSE recent.limit)
        /\ \A r \in eligible :
              (\A i \in 1..Len(rows) : rows[i] # r) =>
                 \A i \in 1..Len(rows) : rows[i].match_date >= r.match_date

\* C14: every status in the events table is one of the four enum values.
C14_StatusEnumClosed ==
    \A r \in matchesTbl :
        r.status \in {"scheduled", "in_progress", "finished", "cancelled"}

\* the score the provider sent for one side: an integer, or unknown (null
\* or no member at all)
ProviderScore(adapter, item, side) ==
    IF adapter = "college"
    THEN (IF side = "home" THEN Get(item, "homePoints", NullJ)
          ELSE Get(item, "awayPoints", NullJ))
    ELSE item.goals[side]

\* record i of the batch was written and no later record replaced its row
RowIsOfRecord(i) ==
    /\ i <= batchIdx
    /\ ~Malformed(batch[i])
    /\ \A j \in (i + 1)..batchIdx :
          Malformed(batch[j]) \/ batch[j].fixture.id # batch[i].fixture.id

\* C15: the row get_match_data returns for an ingested event has, on each
\* side, the integer score the provider sent (0 stays 0) and null where the
\* provider sent no score (null stays null).
C15_ScoresRoundTrip ==
    (spc \in {"storing", "stored"} /\ lastFetch.adapter # "none") =>
        \A i \in 1..Len(batch) :
            RowIsOfRecord(i) =>
                LET row == GetMatchData(matchesTbl, batch[i].fixture.id.v)
                    item == lastFetch.resp.items[i]
                IN
                /\ row # NoRow
                /\ row.home_score = ProviderScore(lastFetch.adapter, item, "home")
                /\ row.away_score = ProviderScore(lastFetch.adapter, item, "away")

C15_Witness ==
    /\ spc = "stored"
    /\ lastFetch.adapter = "college"
    /\ lastFetch.resp.items = <<G1, G2>>
    /\ GetMatchData(matchesTbl, 1) # NoRow
    /\ GetMatchData(matchesTbl, 1).home_score = IntJ(0)
    /\ GetMatchData(matchesTbl, 1).away_score = IntJ(0)
    /\ GetMatchData(matchesTbl, 2) # NoRow
    /\ GetMatchData(matchesTbl, 2).home_score = NullJ
    /\ GetMatchData(matchesTbl, 2).away_score = NullJ

\* the upstream answer is a failure or not of the shape the adapter expects
UnusableResponse(adapter, resp) ==
    \/ resp.kind \in {"transport_error", "http_error", "non_json", "bad_json"}
    \/ /\ adapter = "college"
       /\ \/ resp.kind = "json_object"
          \/ \E i \in 1..Len(resp.items) : "scalar" \in DOMAIN resp.items[i]
    \/ adapter = "football" /\ resp.kind = "json_list"

\* C16: an adapter fetch never raises, and returns the empty sequence for a
\* transport error, a non-2xx status, a non-JSON body and a malformed payload.
C16_AdapterNeverRaises ==
    lastFetch.adapter # "none" =>
        /\ ~lastFetch.raised
        /\ UnusableResponse(lastFetch.adapter, lastFetch.resp) =>
              lastFetch.result = <<>>

\* C17: run_deep_analysis never ends by raising; it returns status error
\* exactly when no event was supplied, having invoked no capability, and
\* otherwise status ok with the five stage outputs attached.
C17_DeepAnalysisOutcome ==
    /\ ppc # "deep_raised"
    /\ ppc = "deep_done" =>
          /\ envelope.status \in {"ok", "error"}
          /\ envelope.status = "error" <=> deep = NoDeep
          /\ envelope.status = "error" => capLog = <<>>
          /\ envelope.status = "ok" =>
                {"prediction", "verification", "action", "recommendation",
                 "ethics"} \subseteq DOMAIN envelope

StageOrder == <<"prediction", "verification", "behavior", "recommendation",
                "ethics">>

\* capabilities invoked when run_deep_analysis is at a position
InvokedAt(pos) ==
    CASE pos = "deep_predict" -> 0
      [] pos = "deep_verify" -> 1
      [] pos = "deep_behavior" -> 2
      [] pos = "deep_recommend" -> 3
      [] pos = "deep_ethics" -> 4
      [] OTHER -> 5

\* C18: in a deep analysis of a supplied event the capabilities invoked so
\* far are the first ones of prediction, verification, behavior,
\* recommendation, ethics, each once and in that order; verification was
\* given the prediction output, recommendation the match, prediction,
\* verification and behavior tag, ethics the recommendation.
C18_StagesInOrderOnce ==
    (deep # NoDeep) =>
        /\ Len(capLog) <= 5
        /\ \A i \in 1..Len(capLog) : capLog[i].cap = StageOrder[i]
        /\ ppc # "deep_raised" => Len(capLog) = InvokedAt(ppc)
        /\ Len(capLog) >= 1 => capLog[1].input = deep.match
        /\ Len(capLog) >= 2 => capLog[2].input = deep.prediction
        /\ Len(capLog) >= 4 =>
              capLog[4].input = [match |-> deep.match,
                                 prediction |-> deep.prediction,
                                 verification |-> deep.verification,
                                 action |-> deep.action]
        /\ Len(capLog) >= 5 => capLog[5].input = deep.recommendation

C18_Witness ==
    /\ ppc = "deep_done"
    /\ envelope.status = "ok"
    /\ Len(capLog) = 5
    /\ envelope.prediction.source = "llm"
    /\ envelope.verification.source = "default"
    /\ envelope.action = "explain"

\* C19: prediction, verification and the compliance check never raise to
\* the orchestrator, and what each returned has its documented shape.
C19_CapabilitiesFallBack ==
    /\ (ppc = "deep_raised" /\ capLog # <<>>) =>
          capLog[Len(capLog)].cap \notin {"prediction", "verification", "ethics"}
    /\ "prediction" \in DOMAIN deep =>
          deep.prediction.shape = "probability_triple"
    /\ "verification" \in DOMAIN deep =>
          deep.verification.shape = "edge_confidence"
    /\ "ethics" \in DOMAIN deep => deep.ethics.shape = "status_pass"

C21_NoCallBlocksForever ==
    ppc # "run_blocked"

\* C22: an intent that reached the Retrieve stage has a sport of the
\* three-value enumeration and a season that is a 4-digit year.
C22_IntentValidatedBeforeRetrieve ==
    (ppc \in RunPositions /\ fetchLog # <<>>) =>
        /\ llm_out.raw.sport_type \in {"football", "college_football",
                                       "basketball"}
        /\ llm_out.raw.season.t = "int"
        /\ llm_out.raw.season.v >= 1000
        /\ llm_out.raw.season.v <= 9999

C25_SportsDoNotInterfere ==
    [][(lastCall'.at # lastCall.at) =>
          \A r \in matchesTbl :
              r.sport_type # lastCall'.sport => r \in matchesTbl']_vars

\* C26: when a reasoning capability has been invoked in a deep analysis,
\* the context of the event has been assembled before.
C26_ContextBeforeReasoning ==
    (deep # NoDeep /\ capLog # <<>>) => "context" \in DOMAIN deep

\* C27: the count reported after a batch equals the number of events of the
\* batch whose write succeeded.
C27_StoredCountIsWritten ==
    spc = "stored" =>
        stored_count = Cardinality({i \in 1..Len(batch) : ~Malformed(batch[i])})

\* C28: a finished event of the team is returned by get_recent_matches
\* under each of the three spellings of finished, whenever the limit leaves
\* room for all finished events of the team.
C28_FinishedSpellingsEquivalent ==
    spc = "viewing" =>
        LET eligible == {r \in matchesTbl : EligibleRecent(r, recent.team_id)} IN
        Cardinality(eligible) <= recent.limit =>
            \A r \in eligible :
                \E i \in 1..Len(recent.rows) : recent.rows[i] = r

\* the status run() owes to the interpreter output and the adapter result
VerdictOf(out, ms) ==
    IF InterpreterFailed(out) THEN "query_error"
    ELSE IF PassingEvents(ms, out.raw.team_name) = <<>> THEN "no_matches"
    ELSE "ok"

\* C29: the status and the candidate list run() returns are determined by
\* the interpreter output and the adapter result alone, whatever the odds
\* lookup gave; a lookup that failed or found nothing leaves an empty odds
\* list in the envelope; on the query_error path no lookup was issued.
C29_OddsDoNotDecide ==
    ppc = "run_done" =>
        /\ envelope.status = VerdictOf(llm_out, matches)
        /\ envelope.status = "ok" =>
              envelope.filtered_matches
                 = PassingEvents(matches, llm_out.raw.team_name)
        /\ envelope.status = "query_error" => oddsLog = <<>>
        /\ envelope.status # "query_error" =>
              /\ Len(oddsLog) = 1
              /\ oddsLog[1].outcome # "quotes" => envelope.odds = <<>>
              /\ oddsLog[1].outcome = "quotes" => envelope.odds # <<>>

C29_Witness ==
    /\ ppc = "run_done"
    /\ envelope.status = "ok"
    /\ oddsLog # <<>>
    /\ oddsLog[1].outcome = "transport_error"
    /\ envelope.odds = <<>>
    /\ Len(envelope.filtered_matches) = 2

WholeRows ==
    {RowOf("football", F1b, 0)}
    \cup {RowOf(commitLog[i].sport, commitLog[i].rec, commitLog[i].ts) :
            i \in 1..Len(commitLog)}

\* positions in commitLog of the committed writes of an event
CommitsOf(id) ==
    {i \in 1..Len(commitLog) : commitLog[i].rec.fixture.id.v = id}

\* C24: when store_match calls of two runs for one event_id interleave, the
\* table holds one row for that event_id, and it is, field by field, the
\* row of the write that committed last; every row of the table and every
\* row a reader was handed is the whole row of one write.
C24_LastCommitWins ==
    /\ \A r1, r2 \in matchesTbl : r1.match_id = r2.match_id => r1 = r2
    /\ \A id \in {1, 2} :
          CommitsOf(id) # {} =>
             LET last == CHOOSE i \in CommitsOf(id) :
                            \A j \in CommitsOf(id) : j <= i
                 c == commitLog[last]
             IN {r \in matchesTbl : r.match_id = id}
                   = {RowOf(c.sport, c.rec, c.ts)}
    /\ matchesTbl \subseteq WholeRows
    /\ observed.row # NoRow => observed.row \in WholeRows

C24_Witness ==
    /\ Len(commitLog) = 2
    /\ commitLog[1].writer # commitLog[2].writer
    /\ commitLog[1].rec = F1b
    /\ commitLog[2].rec = F1
    /\ commitLog[2].ts < commitLog[1].ts
    /\ observed.match_id = 1
    /\ observed.lock = commitLog[2].writer
    /\ observed.row = RowOf("football", F1b, commitLog[1].ts)
    /\ GetMatchData(matchesTbl, 1) = RowOf("football", F1, commitLog[2].ts)
====
